---------------------------- MODULE Spec2Model ----------------------------
(***************************************************************************)
(* Model of the sensor system of publish-mqtt (src/publish-mqtt/src/       *)
(* main.rs): the connection orchestrator (bluetooth_connection_loop and    *)
(* the functions it calls) and the event dispatcher                        *)
(* (handle_bluetooth_event), which share the registry SensorState behind   *)
(* one tokio Mutex.                                                        *)
(*                                                                         *)
(* Every acquisition of the registry lock is one atomic step; the steps of *)
(* the two tasks interleave freely between lock sections and transport     *)
(* calls.  Instant::now() is the integer variable now.                     *)
(***************************************************************************)
EXTENDS Integers, Sequences, FiniteSets, TLC

(***************************************************************************)
(* Durations (main.rs:22-25), in model time units.  The code only compares *)
(* an Instant with an Instant plus one of these durations, so the model    *)
(* keeps their order, CONNECT_INTERVAL <= SCAN_INTERVAL < UPDATE_TIMEOUT < *)
(* SENSOR_CONNECT_RESERVATION_TIMEOUT (1 s, 15 s, 60 s and 300 s in the    *)
(* source), on a scale coarse enough for every timeout to expire within    *)
(* the time the model explores.                                            *)
(***************************************************************************)
SCAN_INTERVAL == 1
CONNECT_INTERVAL == 1
UPDATE_TIMEOUT == 2
SENSOR_CONNECT_RESERVATION_TIMEOUT == 3

\* Bounds of the model: the time explored with one configured sensor and
\* with two, and the number of devices one discovery run reports; for
\* get_all_history the largest start and length of the range, the largest
\* record index and the number of events before the stream falls silent; the
\* time explored with the loop ticking forever.
MaxTime == 5
FleetMaxTime == 3
MaxVisible == 2
MaxStart == 1
MaxSlots == 2
MaxIndex == 3
MaxEvents == 3
LiveMaxTime == 7

MIJIA_NAME == "LYWSD03MMC"

\* The Bluetooth devices that can be in range.
Devices ==
    { [id |-> "hci0/m1", mac_address |-> "m1", name |-> MIJIA_NAME],
      [id |-> "hci0/m2", mac_address |-> "m2", name |-> MIJIA_NAME],
      [id |-> "hci0/m3", mac_address |-> "m3", name |-> MIJIA_NAME],
      [id |-> "hci0/m2x", mac_address |-> "m2", name |-> "other"] }

DeviceIds == { d.id : d \in Devices }

\* The devices whose notifications reach the event stream.
EventIds == { "hci0/m1", "hci0/m2" }

\* The contents of sensor_names.conf: one configured sensor, or two.
OneName == [ m \in {"m1"} |-> "kitchen" ]
TwoNames == [ m \in {"m1", "m2"} |-> IF m = "m1" THEN "kitchen" ELSE "attic" ]

Tags == { "Unknown", "Connecting", "SubscribingFailedOnce", "WatchdogTimeOut",
          "Disconnected", "MarkedDisconnected", "Connected" }

\* A ConnectionStatus value; only Connecting carries reserved_until.
Status(tag) == [tag |-> tag, reserved_until |-> 0]
Connecting(until) == [tag |-> "Connecting", reserved_until |-> until]

NoSensor == [id |-> "", mac_address |-> "", name |-> "",
             last_update_timestamp |-> 0, connection_status |-> Status("Unknown")]
NoStatus == Status("Unknown")

\* HistoryRecord: the index and the values of a record; Option::None.
NoRecord == [index |-> -1, data |-> ""]
HistoryRecords == [index : 0..MaxIndex, data : { "a", "b" }]

\* MijiaEvent
NoEvent == [kind |-> "", id |-> "", record |-> NoRecord]
MijiaEvents ==
    [kind : { "HistoryRecord" }, id : EventIds, record : HistoryRecords]
        \cup [kind : { "Readings", "Disconnected" }, id : { "hci0/m1" }, record : { NoRecord }]

\* Range<u32>, as get_history_range returns it: start <= end.
HistoryRanges ==
    { r \in [start : 0..MaxStart, end : 0..(MaxStart + MaxSlots)] :
          r.start <= r.end /\ r.end - r.start <= MaxSlots }

VARIABLES
    sensor_names,   \* the MAC address -> name mapping read by run_sensor_system
    horizon,        \* the time up to which this run is explored
    sensors,        \* SensorState.sensors
    next_idx,       \* SensorState.next_idx
    nodes,          \* the node ids registered with the HomieDevice
    now,            \* Instant::now()
    run,            \* "running", "failed" (an error left a loop), "panicked"
    pc,             \* position of bluetooth_connection_loop
    next_scan_due,  \* local of bluetooth_connection_loop
    found,          \* check_for_sensors: the result of get_sensors
    idx,            \* action_next_sensor: the index picked, -1 when none
    status,         \* action_next_sensor: the status read with the index
    sensor,         \* connect_sensor_at_idx: the snapshot of the sensor
    result,         \* connect_sensor_at_idx: result of connect_start_sensor
    lock,           \* the task that holds the Mutex of the registry, "none" if free
    last,           \* the step taken last and the external calls it issued
    since,          \* per sensor, the picks of the ticks since it was picked last
    connected_at,   \* per sensor, when its last successful connect attempt ended, -1 if none
    h_pc,           \* get_all_history: position
    h_id,           \* get_all_history: the id of the sensor asked for
    history_range,  \* get_all_history: the range read from the sensor
    history,        \* get_all_history: the slots
    h_notify,       \* whether history notifications are switched on
    h_match,        \* the MsgMatch of the event stream: "none", "held", "removed", "dropped"
    h_result,       \* get_all_history: "none", "ok" or "err"
    h_event,        \* get_all_history: the event received last
    h_count,        \* get_all_history: the number of events received
    call,           \* a call of a function of the codec or of the configuration
    ret,            \* what the call has returned or yielded so far
    done            \* whether the call has returned

vars == << sensor_names, horizon, sensors, next_idx, nodes, now, run, pc, next_scan_due, found, idx,
           status, sensor, result, lock, last, since, connected_at,
           h_pc, h_id, history_range, history, h_notify, h_match, h_result, h_event, h_count,
           call, ret, done >>

svars == << sensor_names, horizon, sensors, next_idx, nodes, now, run, pc, next_scan_due, found,
            idx, status, sensor, result, lock, last, since, connected_at >>
hvars == << h_pc, h_id, history_range, history, h_notify, h_match, h_result, h_event, h_count >>
fvars == << call, ret, done >>
registry == << sensors, next_idx, nodes >>
config == << sensor_names, horizon >>
locals == << next_scan_due, found, idx, status, sensor, result >>

----------------------------------------------------------------------------
\* Helpers

\* Vec indexing: sensors[i] with the 0-based index of the source.
At(s, i) == s[i + 1]

InRange(s, i) == i >= 0 /\ i < Len(s)

\* Faulty variant: the record is written to the first entry.
SetAtFirst(s, i, v) == [s EXCEPT ![1] = v]

\* sensors[i] = v with the 0-based index of the source.
SetAt(s, i, v) == [s EXCEPT ![i + 1] = v]

\* Sensor::node_id: the MAC address without its colons.
node_id(s) == "node_" \o s.mac_address

\* sensors.iter().find(|s| s.id == id): the first index with that id, -1 if none.
FindById(s, id) ==
    IF \E i \in 1..Len(s) : s[i].id = id
    THEN (CHOOSE i \in 1..Len(s) :
              /\ s[i].id = id
              /\ \A j \in 1..(i - 1) : s[j].id # id) - 1
    ELSE -1

\* Faulty variant: the error of the call is dropped.
TryIgnored(ok) == "running"

\* The ? after a call of the orchestrator loop or of the dispatcher loop: an
\* error leaves the loop, and try_join! then drops the other loop.
Try(ok) == IF ok THEN "running" ELSE "failed"

\* A call to the transport or to the telemetry client; ok: it returned Ok.
Call(op, arg, ok) == [op |-> op, arg |-> arg, ok |-> ok]

\* Faulty variant: the reservation is written without the lock.
LockedByButReserve(act) ==
    IF act \in { "init", "advance", "start", "discover", "connect", "sleep", "reserve" }
    THEN "none"
    ELSE IF act \in { "readings", "disconnected" } THEN "events"
    ELSE "loop"

\* state.lock().await: the task that holds the lock of the registry while the
\* step act runs; the steps that lock nothing are the start of the loop, the
\* transport calls, the sleep and the passing of time.
LockedBy(act) ==
    IF act \in { "init", "advance", "start", "discover", "connect", "sleep" } THEN "none"
    ELSE IF act \in { "readings", "disconnected" } THEN "events"
    ELSE "loop"

\* Faulty variant: the guard taken for the reservation lives on through the
\* connect attempt.
GuardAfterKeptByReserve(act) == IF act = "reserve" THEN "loop" ELSE "none"

\* The holder of the lock after the step act: every MutexGuard is a temporary
\* of a statement or a local of a block or function that ends with the step.
GuardAfter(act) == "none"

\* What the last step was: the action, the id of the sensor it was about, the
\* tag of that sensor's registry status before the step, the calls it issued
\* and the task that held the lock.
Step(act, who, pre, calls) ==
    [act |-> act, who |-> who, pre |-> pre, until |-> 0, calls |-> calls,
     held |-> LockedBy(act)]

\* The same for a step that overwrites a status Connecting { reserved_until }.
StepOver(act, who, st, calls) ==
    [act |-> act, who |-> who, pre |-> st.tag, until |-> st.reserved_until,
     calls |-> calls, held |-> LockedBy(act)]

\* The picks since each sensor's last pick, after a tick that picked the index
\* pick (-1: none).  The record is kept up to the length limit.
Picked(sn, pick, limit) ==
    [k \in 1..Len(sn) |->
        IF k = pick + 1 THEN << >>
        ELSE IF Len(sn[k]) < limit THEN Append(sn[k], pick)
        ELSE sn[k]]

\* The MAC addresses a discovery run reported, as the calls of its step.
RECURSIVE Seen(_)
Seen(props_list) ==
    IF props_list = << >> THEN << >>
    ELSE << Call("seen", Head(props_list).mac_address, TRUE) >> \o Seen(Tail(props_list))

----------------------------------------------------------------------------
\* No retrieval of the history has been asked for.
HistoryIdle ==
    /\ h_pc = "idle"
    /\ h_id = ""
    /\ history_range = [start |-> 0, end |-> 0]
    /\ history = << >>
    /\ h_notify = FALSE
    /\ h_match = "none"
    /\ h_result = "none"
    /\ h_event = NoEvent
    /\ h_count = 0

\* No function of the codec or of the configuration has been called.
NoCall ==
    /\ call = [fn |-> "", arg |-> << >>, pos |-> 0]
    /\ ret = << >>
    /\ done = FALSE

\* run_sensor_system: the state the two loops start from.
RegistryInit ==
    /\ sensors = << >>
    /\ next_idx = 0
    /\ nodes = {}
    /\ now = 0
    /\ run = "running"
    /\ pc = "start"
    /\ next_scan_due = 0
    /\ found = << >>
    /\ idx = -1
    /\ status = NoStatus
    /\ sensor = NoSensor
    /\ result = "none"
    /\ lock = "none"
    /\ last = Step("init", "", "", << >>)
    /\ since = << >>
    /\ connected_at = << >>

InitState ==
    /\ RegistryInit
    /\ HistoryIdle
    /\ NoCall

Init ==
    /\ sensor_names = OneName
    /\ horizon = MaxTime
    /\ InitState

InitFleet ==
    /\ sensor_names = TwoNames
    /\ horizon = FleetMaxTime
    /\ InitState

\* Time passes while a task is suspended.
Advance ==
    /\ run = "running"
    /\ UNCHANGED lock
    /\ now < horizon
    /\ now' = now + 1
    /\ last' = Step("advance", "", "", << >>)
    /\ UNCHANGED << fvars, hvars, config, since, connected_at, registry, run, pc, locals >>

\* bluetooth_connection_loop: let mut next_scan_due = Instant::now();
LoopStart ==
    /\ run = "running"
    /\ UNCHANGED lock
    /\ pc = "start"
    /\ next_scan_due' = now
    /\ pc' = "top"
    /\ last' = Step("start", "", "", << >>)
    /\ UNCHANGED << fvars, hvars, config, since, connected_at, registry, now, run, found, idx, status, sensor, result >>

\* Faulty variant: the scan is due whenever the scan interval has elapsed.
ScanDueByTime(s, names, due, t) == t > due

\* The scan is due: now > next_scan_due && sensors.len() < sensor_names.len()
ScanDue(s, names, due, t) == t > due /\ Len(s) < Cardinality(DOMAIN names)

\* bluetooth_connection_loop: the status summary and the scan check.
LoopTop ==
    /\ run = "running"
    /\ lock = "none"
    /\ lock' = GuardAfter("top")
    /\ pc = "top"
    /\ IF ScanDue(sensors, sensor_names, next_scan_due, now)
       THEN /\ next_scan_due' = now + SCAN_INTERVAL
            /\ pc' = "discover"
       ELSE /\ pc' = "next"
            /\ UNCHANGED next_scan_due
    /\ last' = Step("top", "", "", << >>)
    /\ UNCHANGED << fvars, hvars, config, since, connected_at, registry, now, run, found, idx, status, sensor, result >>


----------------------------------------------------------------------------
\* Discovery: check_for_sensors

SeqUpTo(S, n) == UNION { [1..k -> S] : k \in 0..n }

\* MijiaSession::get_sensors: the devices named MIJIA_NAME, as SensorProps.
RECURSIVE get_sensors(_)
get_sensors(devices) ==
    IF devices = << >> THEN << >>
    ELSE LET device == Head(devices)
             rest == get_sensors(Tail(devices))
         IN  IF device.name = MIJIA_NAME
             THEN << [id |-> device.id, mac_address |-> device.mac_address] >> \o rest
             ELSE rest

\* Sensor::new
NewSensor(props, names, t) ==
    [id |-> props.id,
     mac_address |-> props.mac_address,
     name |-> IF props.mac_address \in DOMAIN names
              THEN names[props.mac_address]
              ELSE props.mac_address,
     last_update_timestamp |-> t,
     connection_status |-> Status("Unknown")]

\* Faulty variant: the registry is not searched for the MAC address.
IsNewSensorUnsearched(s, names, props) == props.mac_address \in DOMAIN names

\* The condition of check_for_sensors under which props is pushed.
IsNewSensor(s, names, props) ==
    /\ props.mac_address \in DOMAIN names
    /\ ~ \E i \in 1..Len(s) : s[i].mac_address = props.mac_address

\* The for loop of check_for_sensors over the discovered sensors.
RECURSIVE PushNewSensors(_, _, _, _)
PushNewSensors(s, names, props_list, t) ==
    IF props_list = << >> THEN s
    ELSE LET props == Head(props_list)
         IN  PushNewSensors(
                 IF IsNewSensor(s, names, props)
                 THEN Append(s, NewSensor(props, names, t)) ELSE s,
                 names, Tail(props_list), t)

\* check_for_sensors: start_discovery and get_sensors, both before the
\* registry is locked; an error of either leaves the loop.
Discover ==
    /\ run = "running"
    /\ UNCHANGED lock
    /\ pc = "discover"
    /\ \/ \E devices \in SeqUpTo(Devices, MaxVisible) :
             /\ found' = get_sensors(devices)
             /\ pc' = "push_sensors"
             /\ last' = Step("discover", "", "",
                             << Call("start_discovery", "", TRUE),
                                Call("get_devices", "", TRUE) >>)
             /\ UNCHANGED run
       \/ \E failed \in { "start_discovery", "get_devices" } :
             /\ pc' = "exit"
             /\ run' = Try(FALSE)
             /\ last' = Step("discover", "", "",
                             IF failed = "start_discovery"
                             THEN << Call("start_discovery", "", FALSE) >>
                             ELSE << Call("start_discovery", "", TRUE),
                                     Call("get_devices", "", FALSE) >>)
             /\ UNCHANGED found
    /\ UNCHANGED << fvars, hvars, config, since, connected_at, registry, now, next_scan_due, idx, status, sensor, result >>

\* check_for_sensors: the registry is locked and the new sensors are pushed.
PushSensors ==
    /\ run = "running"
    /\ lock = "none"
    /\ lock' = GuardAfter("push_sensors")
    /\ pc = "push_sensors"
    /\ sensors' = PushNewSensors(sensors, sensor_names, found, now)
    /\ found' = << >>
    /\ pc' = "next"
    /\ last' = Step("push_sensors", "",
                    IF \E k \in 1..Len(found), i \in 1..Len(sensors) :
                           found[k].mac_address = sensors[i].mac_address
                    THEN "registered" ELSE "",
                    Seen(found))
    /\ since' = since \o [k \in 1..(Len(sensors') - Len(sensors)) |-> << >>]
    /\ connected_at' = connected_at \o [k \in 1..(Len(sensors') - Len(sensors)) |-> -1]
    /\ UNCHANGED << fvars, hvars, config, next_idx, nodes, now, run, next_scan_due, idx, status, sensor, result >>

----------------------------------------------------------------------------
\* The tick: action_next_sensor

\* Faulty variant: the cursor is not reset when it has run off the end.
next_actionable_sensor_no_reset(s, n) ==
    IF InRange(s, n)
    THEN [picked |-> TRUE, idx |-> n, status |-> At(s, n).connection_status,
          next_idx |-> n + 1]
    ELSE [picked |-> FALSE, idx |-> -1, status |-> NoStatus, next_idx |-> n]

\* Faulty variant: the cursor is not advanced past the picked sensor.
next_actionable_sensor_no_advance(s, n) ==
    IF InRange(s, n)
    THEN [picked |-> TRUE, idx |-> n, status |-> At(s, n).connection_status,
          next_idx |-> n]
    ELSE [picked |-> FALSE, idx |-> -1, status |-> NoStatus, next_idx |-> 0]

\* Faulty variant: the cursor is advanced before the entry is looked up, and
\* so also when there is none.
next_actionable_sensor_advance_first(s, n) ==
    IF InRange(s, n)
    THEN [picked |-> TRUE, idx |-> n, status |-> At(s, n).connection_status,
          next_idx |-> n + 1]
    ELSE [picked |-> FALSE, idx |-> -1, status |-> NoStatus, next_idx |-> n + 1]

\* next_actionable_sensor: the index and status picked and the new cursor.
next_actionable_sensor(s, n) ==
    IF InRange(s, n)
    THEN [picked |-> TRUE, idx |-> n, status |-> At(s, n).connection_status,
          next_idx |-> n + 1]
    ELSE [picked |-> FALSE, idx |-> -1, status |-> NoStatus, next_idx |-> 0]

NextActionable ==
    /\ run = "running"
    /\ lock = "none"
    /\ lock' = GuardAfter("next")
    /\ pc = "next"
    /\ LET r == next_actionable_sensor(sensors, next_idx)
       IN  /\ next_idx' = r.next_idx
           /\ idx' = r.idx
           /\ status' = r.status
           /\ pc' = IF r.picked THEN "match" ELSE "sleep"
           /\ last' = Step("next", IF r.picked THEN At(sensors, r.idx).id ELSE "",
                           IF r.picked THEN r.status.tag ELSE "", << >>)
           /\ since' = Picked(since, r.idx, Cardinality(DOMAIN sensor_names) + 2)
    /\ UNCHANGED connected_at
    /\ UNCHANGED << fvars, hvars, config, sensors, nodes, now, run, next_scan_due, found, sensor, result >>

\* The match of action_next_sensor on the status that was read with the index.
ActionFor(st, t) ==
    IF st.tag = "Connecting" /\ st.reserved_until > t THEN "reserved"
    ELSE IF st.tag = "Connected" THEN "check_stale"
    ELSE "connect"

\* action_next_sensor: the sensor is looked up again (println) and the match
\* on the status chooses what the tick does.
MatchStatus ==
    /\ run = "running"
    /\ lock = "none"
    /\ lock' = GuardAfter("match")
    /\ pc = "match"
    /\ IF InRange(sensors, idx)
       THEN /\ pc' = CASE ActionFor(status, now) = "reserved" -> "sleep"
                       [] ActionFor(status, now) = "check_stale" -> "check_stale"
                       [] OTHER -> "clone"
            /\ UNCHANGED run
       ELSE pc' = "exit" /\ run' = "panicked"
    /\ status' = NoStatus
    /\ last' = Step("match", IF InRange(sensors, idx) THEN At(sensors, idx).id ELSE "",
                    status.tag, << >>)
    /\ UNCHANGED << fvars, hvars, config, since, connected_at, registry, now, next_scan_due, found, idx, sensor, result >>

\* clone_sensor_at_idx
CloneSensor ==
    /\ run = "running"
    /\ lock = "none"
    /\ lock' = GuardAfter("clone")
    /\ pc = "clone"
    /\ sensor' = At(sensors, idx)
    /\ pc' = "reserve"
    /\ last' = Step("clone", At(sensors, idx).id, At(sensors, idx).connection_status.tag, << >>)
    /\ UNCHANGED << fvars, hvars, config, since, connected_at, registry, now, run, next_scan_due, found, idx, status, result >>

\* connect_sensor_at_idx: the status written before the connect attempt.
Reservation(t) == Connecting(t + SENSOR_CONNECT_RESERVATION_TIMEOUT)

\* connect_sensor_at_idx: sensors[idx].connection_status = Connecting {..}
Reserve ==
    /\ run = "running"
    /\ lock = "none"
    /\ lock' = GuardAfter("reserve")
    /\ pc = "reserve"
    /\ sensors' = SetAt(sensors, idx,
                        [At(sensors, idx) EXCEPT !.connection_status = Reservation(now)])
    /\ pc' = "connect"
    /\ last' = Step("reserve", At(sensors, idx).id, At(sensors, idx).connection_status.tag, << >>)
    /\ UNCHANGED << fvars, hvars, config, since, connected_at, next_idx, nodes, now, run, locals >>

\* Faulty variant: a second failure is handled like the first.
OnSubscribeFailureNoDisconnect(tag) ==
    CASE tag \in { "Unknown", "Connecting", "Disconnected", "MarkedDisconnected",
                   "WatchdogTimeOut", "SubscribingFailedOnce" } -> "SubscribingFailedOnce"
      [] tag = "Connected" -> "panic"

\* connect_start_sensor: what a failed start_notify_sensor leads to, by the
\* status of the snapshot.
OnSubscribeFailure(tag) ==
    CASE tag \in { "Unknown", "Connecting", "Disconnected", "MarkedDisconnected",
                   "WatchdogTimeOut" } -> "SubscribingFailedOnce"
      [] tag = "SubscribingFailedOnce" -> "disconnect"
      [] tag = "Connected" -> "panic"

\* connect_start_sensor(session, &mut sensor), run on the snapshot without the
\* registry lock.  connected, subscribed, disconnected: whether the transport
\* calls connect, start_notify_sensor and disconnect return Ok.  The value is
\* the snapshot afterwards, the result ("ok", "err" or "panic") and the
\* transport calls issued.
connect_start_sensor(s, connected, subscribed, disconnected) ==
    LET tag == s.connection_status.tag
        c == Call("connect", s.id, connected)
        n == Call("start_notify", s.id, subscribed)
        d == Call("disconnect", s.id, disconnected)
    IN  IF ~connected THEN [sensor |-> s, result |-> "err", calls |-> << c >>]
        ELSE IF subscribed THEN [sensor |-> s, result |-> "ok", calls |-> << c, n >>]
        ELSE CASE OnSubscribeFailure(tag) = "SubscribingFailedOnce" ->
                    [sensor |-> [s EXCEPT !.connection_status = Status("SubscribingFailedOnce")],
                     result |-> "err", calls |-> << c, n >>]
               [] OnSubscribeFailure(tag) = "disconnect" ->
                    IF disconnected
                    THEN [sensor |-> [s EXCEPT !.connection_status = Status("Disconnected")],
                          result |-> "err", calls |-> << c, n, d >>]
                    ELSE [sensor |-> s, result |-> "err", calls |-> << c, n, d >>]
               [] OnSubscribeFailure(tag) = "panic" ->
                    [sensor |-> s, result |-> "panic", calls |-> << c, n >>]

\* connect_sensor_at_idx: connect_start_sensor(session, &mut sensor).await
ConnectStart ==
    /\ run = "running"
    /\ UNCHANGED lock
    /\ pc = "connect"
    /\ \E connected, subscribed, disconnected \in BOOLEAN :
          LET r == connect_start_sensor(sensor, connected, subscribed, disconnected)
          IN  /\ sensor' = r.sensor
              /\ result' = r.result
              /\ last' = Step("connect", sensor.id, sensor.connection_status.tag, r.calls)
              /\ IF r.result = "panic"
                 THEN pc' = "exit" /\ run' = "panicked"
                 ELSE pc' = "write_back" /\ UNCHANGED run
    /\ UNCHANGED << fvars, hvars, config, since, connected_at, registry, now, next_scan_due, found, idx, status >>

\* Sensor::mark_connected after a successful add_node.
mark_connected(s) == [s EXCEPT !.connection_status = Status("Connected")]

\* Faulty variant: a failed attempt returns before the snapshot is written.
WrittenBackOnSuccessOnly(cur, s, res, t) ==
    IF res = "ok" THEN [mark_connected(s) EXCEPT !.last_update_timestamp = t]
    ELSE cur

\* Faulty variant: the timestamp of the snapshot is kept after a success.
WrittenBackUnstamped(cur, s, res, t) ==
    IF res = "ok" THEN mark_connected(s) ELSE s

\* connect_sensor_at_idx: the record sensors[idx] holds after the attempt.
\* cur is the entry before the write, s the snapshot, res the result of
\* connect_start_sensor.
WrittenBack(cur, s, res, t) ==
    IF res = "ok" THEN [mark_connected(s) EXCEPT !.last_update_timestamp = t]
    ELSE s

\* connect_sensor_at_idx: the registry is locked again and the snapshot is
\* written back; after a successful attempt the node is added first, and an
\* error of add_node leaves the function before the write.
WriteBack ==
    /\ run = "running"
    /\ lock = "none"
    /\ lock' = GuardAfter("write_back")
    /\ pc = "write_back"
    /\ \E ok \in BOOLEAN :
          /\ IF result = "ok" /\ ~ok
             THEN /\ pc' = "exit"
                  /\ run' = Try(FALSE)
                  /\ UNCHANGED << sensors, nodes, connected_at >>
             ELSE /\ sensors' = SetAt(sensors, idx,
                                      WrittenBack(At(sensors, idx), sensor, result, now))
                  /\ nodes' = IF result = "ok" THEN nodes \cup { node_id(sensor) } ELSE nodes
                  /\ connected_at' = IF result = "ok"
                                     THEN [connected_at EXCEPT ![idx + 1] = now]
                                     ELSE connected_at
                  /\ pc' = "sleep"
                  /\ UNCHANGED run
          /\ last' = StepOver("write_back", sensor.id, At(sensors, idx).connection_status,
                              IF result = "ok"
                              THEN << Call("add_node", node_id(sensor), ok) >>
                              ELSE << >>)
    /\ sensor' = NoSensor
    /\ result' = "none"
    /\ UNCHANGED << fvars, hvars, config, since, next_idx, now, next_scan_due, found, idx, status >>

\* Faulty variant: the comparison is >= instead of >.
IsStaleAtTimeout(s, t) == t - s.last_update_timestamp >= UPDATE_TIMEOUT

\* check_for_stale_sensor: now - sensor.last_update_timestamp > UPDATE_TIMEOUT
IsStale(s, t) == t - s.last_update_timestamp > UPDATE_TIMEOUT

\* check_for_stale_sensor
CheckStale ==
    /\ run = "running"
    /\ lock = "none"
    /\ lock' = GuardAfter("check_stale")
    /\ pc = "check_stale"
    /\ LET s == At(sensors, idx)
       IN  IF IsStale(s, now)
           THEN /\ sensors' = SetAt(sensors, idx,
                                    [s EXCEPT !.connection_status = Status("WatchdogTimeOut")])
                /\ \E ok \in BOOLEAN :
                      /\ IF ok THEN /\ nodes' = nodes \ { node_id(s) }
                                    /\ pc' = "sleep"
                                    /\ UNCHANGED run
                               ELSE /\ pc' = "exit"
                                    /\ run' = Try(FALSE)
                                    /\ UNCHANGED nodes
                      /\ last' = Step("check_stale", s.id, s.connection_status.tag,
                                      << Call("remove_node", node_id(s), ok) >>)
           ELSE /\ pc' = "sleep"
                /\ last' = Step("check_stale", s.id, s.connection_status.tag, << >>)
                /\ UNCHANGED << sensors, nodes, run >>
    /\ UNCHANGED << fvars, hvars, config, since, connected_at, next_idx, now, locals >>

\* bluetooth_connection_loop: time::delay_for(CONNECT_INTERVAL).await
Sleep ==
    /\ run = "running"
    /\ UNCHANGED lock
    /\ pc = "sleep"
    /\ now + CONNECT_INTERVAL <= horizon
    /\ now' = now + CONNECT_INTERVAL
    /\ pc' = "top"
    /\ idx' = -1
    /\ status' = NoStatus
    /\ last' = Step("sleep", "", "", << >>)
    /\ UNCHANGED << fvars, hvars, config, since, connected_at, registry, run, next_scan_due, found, sensor, result >>

----------------------------------------------------------------------------
\* The event dispatcher: handle_bluetooth_event

\* Sensor::publish_readings: the timestamp is refreshed before the values
\* are published.
publish_readings(s, t) == [s EXCEPT !.last_update_timestamp = t]

\* Faulty variant: Connecting is not exempted.
NeedsMarkConnectedUnlessConnected(tag) == tag # "Connected"

\* handle_bluetooth_event, Readings: whether the status makes the handler
\* mark the sensor connected.
NeedsMarkConnected(tag) == tag \notin { "Connected", "Connecting" }

\* handle_bluetooth_event, MijiaEvent::Readings { id, .. }.  outcome is "ok",
\* or the call that returned an error: "publish_value" or "add_node".
HandleReadings(id, outcome) ==
    /\ run = "running"
    /\ lock = "none"
    /\ lock' = GuardAfter("readings")
    /\ LET i == FindById(sensors, id)
       IN  IF i = -1
           THEN /\ outcome = "ok"
                /\ last' = Step("readings", id, "", << >>)
                /\ UNCHANGED << registry, run, pc >>
           ELSE LET s == At(sensors, i)
                    tag == s.connection_status.tag
                    published == publish_readings(s, now)
                    pub == Call("publish_value", node_id(s), outcome # "publish_value")
                    add == Call("add_node", node_id(s), outcome # "add_node")
                IN  CASE outcome = "publish_value" ->
                           /\ sensors' = SetAt(sensors, i, published)
                           /\ run' = Try(FALSE)
                           /\ pc' = "exit"
                           /\ last' = Step("readings", id, tag, << pub >>)
                           /\ UNCHANGED << next_idx, nodes >>
                      [] outcome = "add_node" ->
                           /\ NeedsMarkConnected(tag)
                           /\ sensors' = SetAt(sensors, i, published)
                           /\ run' = Try(FALSE)
                           /\ pc' = "exit"
                           /\ last' = Step("readings", id, tag, << pub, add >>)
                           /\ UNCHANGED << next_idx, nodes >>
                      [] outcome = "ok" ->
                           /\ IF NeedsMarkConnected(tag)
                              THEN /\ sensors' = SetAt(sensors, i, mark_connected(published))
                                   /\ nodes' = nodes \cup { node_id(s) }
                                   /\ last' = Step("readings", id, tag, << pub, add >>)
                              ELSE /\ sensors' = SetAt(sensors, i, published)
                                   /\ last' = Step("readings", id, tag, << pub >>)
                                   /\ UNCHANGED nodes
                           /\ UNCHANGED << next_idx, run, pc >>
    /\ UNCHANGED << fvars, hvars, config, since, connected_at, now, locals >>

\* Faulty variant: the status of the sensor is not looked at.
KnownSensor(s, i) == i # -1

\* handle_bluetooth_event, Disconnected: the sensor is found and its status
\* is Connected.
KnownConnected(s, i) == i # -1 /\ At(s, i).connection_status = Status("Connected")

\* handle_bluetooth_event, MijiaEvent::Disconnected { id }.  ok: remove_node
\* returned no error.
HandleDisconnected(id, ok) ==
    /\ run = "running"
    /\ lock = "none"
    /\ lock' = GuardAfter("disconnected")
    /\ LET i == FindById(sensors, id)
       IN  IF KnownConnected(sensors, i)
           THEN LET s == At(sensors, i)
                IN  /\ sensors' = SetAt(sensors, i,
                           [s EXCEPT !.connection_status = Status("MarkedDisconnected")])
                    /\ IF ok THEN /\ nodes' = nodes \ { node_id(s) }
                                  /\ UNCHANGED << run, pc >>
                             ELSE /\ run' = Try(FALSE)
                                  /\ pc' = "exit"
                                  /\ UNCHANGED nodes
                    /\ last' = Step("disconnected", id, s.connection_status.tag,
                                    << Call("remove_node", node_id(s), ok) >>)
                    /\ UNCHANGED next_idx
           ELSE /\ ok
                /\ last' = Step("disconnected", id,
                                IF i = -1 THEN "" ELSE At(sensors, i).connection_status.tag,
                                << >>)
                /\ UNCHANGED << registry, run, pc >>
    /\ UNCHANGED << fvars, hvars, config, since, connected_at, now, locals >>

----------------------------------------------------------------------------
Tick ==
    \/ LoopStart
    \/ LoopTop
    \/ Discover
    \/ PushSensors
    \/ NextActionable
    \/ MatchStatus
    \/ CloneSensor
    \/ Reserve
    \/ ConnectStart
    \/ WriteBack
    \/ CheckStale
    \/ Sleep

Dispatch ==
    \/ \E id \in EventIds, outcome \in { "ok", "publish_value", "add_node" } :
          HandleReadings(id, outcome)
    \/ \E id \in EventIds, ok \in BOOLEAN : HandleDisconnected(id, ok)

Next == Tick \/ Dispatch \/ Advance

Spec == Init /\ [][Next]_vars

\* The loop ticking forever: time passes in the sleep of the loop only, and a
\* step of the loop that can be taken is taken.  The events arrive or do not.
InitLive ==
    /\ sensor_names = OneName
    /\ horizon = LiveMaxTime
    /\ InitState

NextLive == Tick \/ Dispatch

SpecLive == InitLive /\ [][NextLive]_vars /\ WF_vars(Tick)

SpecFleet == InitFleet /\ [][Next]_vars

----------------------------------------------------------------------------
\* The bulk retrieval of the history: MijiaSession::get_all_history

\* Range<u32>::len and Range<u32>::contains
RangeLen(r) == IF r.end > r.start THEN r.end - r.start ELSE 0
RangeContains(r, i) == r.start <= i /\ i < r.end

\* vec![None; history_range.len()]
NoneSlots(r) == [k \in 1..RangeLen(r) |-> NoRecord]

\* Faulty variant: the index of the record is used as the offset.
HistoryOffsetIsIndex(r, record) == record.index

\* let offset = record.index - history_range.start
HistoryOffset(r, record) == record.index - r.start

\* The body of the while loop for one event: the slots afterwards.
StoreRecord(h, r, id, event) ==
    IF event.kind = "HistoryRecord" /\ event.id = id /\ RangeContains(r, event.record.index)
    THEN [h EXCEPT ![HistoryOffset(r, event.record) + 1] = event.record]
    ELSE h

\* Faulty variant: the loop also ends when every slot is filled.
AfterEventOrFilled(h, kind) ==
    IF kind = "Elapsed" \/ \A k \in 1..Len(h) : h[k] # NoRecord THEN "stop" ELSE "loop"

\* while let Some(Ok(event)) = events.next().await: the loop goes on after
\* an event and ends when the timeout has elapsed.
AfterEvent(h, kind) == IF kind = "Elapsed" THEN "stop" ELSE "loop"

\* The call get_all_history(id).
HistoryCall ==
    /\ h_pc = "idle"
    /\ \E id \in EventIds : h_id' = id
    /\ h_pc' = "range"
    /\ UNCHANGED << fvars, svars, history_range, history, h_notify, h_match, h_result, h_event,
                    h_count >>

\* self.get_history_range(&id).await?
GetHistoryRange ==
    /\ h_pc = "range"
    /\ \/ /\ \E r \in HistoryRanges : history_range' = r
          /\ h_pc' = "stream"
          /\ UNCHANGED h_result
       \/ /\ h_result' = "err"
          /\ h_pc' = "done"
          /\ UNCHANGED history_range
    /\ UNCHANGED << fvars, svars, h_id, history, h_notify, h_match, h_event, h_count >>

\* self.event_stream().await? and events.timeout(HISTORY_RECORD_TIMEOUT)
EventStream ==
    /\ h_pc = "stream"
    /\ \/ /\ h_match' = "held"
          /\ h_pc' = "start"
          /\ UNCHANGED h_result
       \/ /\ h_result' = "err"
          /\ h_pc' = "done"
          /\ UNCHANGED h_match
    /\ UNCHANGED << fvars, svars, h_id, history_range, history, h_notify, h_event, h_count >>

\* self.start_notify_history(&id, Some(0)).await? and the allocation of the
\* slots.  An error returns from the function, which drops the MsgMatch.
StartNotifyHistory ==
    /\ h_pc = "start"
    /\ \/ /\ h_notify' = TRUE
          /\ history' = NoneSlots(history_range)
          /\ h_pc' = "loop"
          /\ UNCHANGED << h_match, h_result >>
       \/ /\ h_result' = "err"
          /\ h_match' = "dropped"
          /\ h_pc' = "done"
          /\ UNCHANGED << h_notify, history >>
    /\ UNCHANGED << fvars, svars, h_id, history_range, h_event, h_count >>

\* while let Some(Ok(event)) = events.next().await: an event arrived within
\* HISTORY_RECORD_TIMEOUT.
HistoryEvent ==
    /\ h_pc = "loop"
    /\ h_count < MaxEvents
    /\ \E event \in MijiaEvents :
          /\ h_event' = event
          /\ history' = StoreRecord(history, history_range, h_id, event)
          /\ h_pc' = AfterEvent(history', event.kind)
    /\ h_count' = h_count + 1
    /\ UNCHANGED << fvars, svars, h_id, history_range, h_notify, h_match, h_result >>

\* events.next().await is Some(Err(Elapsed)): no event arrived within
\* HISTORY_RECORD_TIMEOUT, the loop ends.
HistoryTimeout ==
    /\ h_pc = "loop"
    /\ h_event' = [NoEvent EXCEPT !.kind = "Elapsed"]
    /\ h_pc' = AfterEvent(history, h_event'.kind)
    /\ UNCHANGED << fvars, svars, h_id, history_range, history, h_notify, h_match, h_result,
                    h_count >>

\* self.stop_notify_history(&id).await?
StopNotifyHistory ==
    /\ h_pc = "stop"
    /\ \/ /\ h_notify' = FALSE
          /\ h_pc' = "remove"
          /\ UNCHANGED << h_match, h_result >>
       \/ /\ h_result' = "err"
          /\ h_match' = "dropped"
          /\ h_pc' = "done"
          /\ UNCHANGED h_notify
    /\ UNCHANGED << fvars, svars, h_id, history_range, history, h_event, h_count >>

\* connection.remove_match(msg_match.token()).await and Ok(history)
RemoveMatch ==
    /\ h_pc = "remove"
    /\ \/ /\ h_match' = "removed"
          /\ h_result' = "ok"
       \/ /\ h_match' = "dropped"
          /\ h_result' = "err"
    /\ h_pc' = "done"
    /\ UNCHANGED << fvars, svars, h_id, history_range, history, h_notify, h_event, h_count >>

NextHistory ==
    \/ HistoryCall
    \/ GetHistoryRange
    \/ EventStream
    \/ StartNotifyHistory
    \/ HistoryEvent
    \/ HistoryTimeout
    \/ StopNotifyHistory
    \/ RemoveMatch

SpecHistory == Init /\ [][NextHistory]_vars

\* The transport calls return and the timer of events.timeout fires.
SpecHistoryLive == SpecHistory /\ WF_vars(NextHistory)

----------------------------------------------------------------------------
\* The codec: Readings::decode

\* u16::from_le_bytes
from_le_bytes(lo, hi) == lo + 256 * hi

\* decode_temperature: the bytes are a signed 16-bit little-endian number of
\* hundredths of a degree; the value is kept in hundredths.
decode_temperature(temperature_array) ==
    LET u == from_le_bytes(temperature_array[1], temperature_array[2])
    IN  IF u >= 32768 THEN u - 65536 ELSE u

\* std::cmp::max
Max(a, b) == IF a >= b THEN a ELSE b

\* Option<Readings>: None, and Some(Readings { .. })
NoReadings ==
    [some |-> FALSE, temperature |-> 0, humidity |-> 0, battery_voltage |-> 0,
     battery_percent |-> 0]

SomeReadings(temperature, humidity, battery_voltage, battery_percent) ==
    [some |-> TRUE, temperature |-> temperature, humidity |-> humidity,
     battery_voltage |-> battery_voltage, battery_percent |-> battery_percent]

\* Faulty variant: the voltage is not raised to 2100 before the subtraction,
\* which wraps in 16 bits.
decode_unclamped(value) ==
    IF Len(value) # 5 THEN NoReadings
    ELSE LET battery_voltage == from_le_bytes(value[4], value[5])
         IN  SomeReadings(decode_temperature(SubSeq(value, 1, 2)), value[3],
                          battery_voltage,
                          ((battery_voltage - 2100) % 65536) \div 10)

\* Readings::decode, with the arithmetic of u16.
decode(value) ==
    IF Len(value) # 5 THEN NoReadings
    ELSE LET battery_voltage == from_le_bytes(value[4], value[5])
         IN  SomeReadings(decode_temperature(SubSeq(value, 1, 2)), value[3],
                          battery_voltage,
                          ((Max(battery_voltage, 2100) - 2100) % 65536) \div 10)

\* The characteristic values decode is called with: every length from 0 to 6,
\* and for the length 5 bytes around the sign of the temperature and around
\* the voltage 2100 = 52 + 256 * 8.
ReadingValues ==
    { << >>, << 1 >>, << 1, 2 >>, << 1, 2, 3 >>, << 1, 2, 3, 4 >>,
      << 1, 2, 3, 4, 5, 6 >>, << 0, 0, 0, 52, 8, 0 >> }
        \cup { << b0, b1, b2, b3, b4 >> :
                  b0 \in { 0, 1, 255 }, b1 \in { 0, 2, 127, 128, 255 },
                  b2 \in { 0, 3, 100, 255 }, b3 \in { 0, 4, 51, 52, 61, 62, 255 },
                  b4 \in { 0, 7, 8, 10, 255 } }

\* The call Readings::decode(value).
ReadingsDecode ==
    /\ call.fn = "Readings::decode"
    /\ ~done
    /\ ret' = decode(call.arg)
    /\ done' = TRUE
    /\ UNCHANGED << svars, hvars, call >>

----------------------------------------------------------------------------
\* The event translator: MijiaEvent::from and the stream of event_stream

\* Object paths are kept as the sequences of their segments.
SENSOR_READING_CHARACTERISTIC_PATH == << "service0021", "char0035" >>
HISTORY_RECORDS_CHARACTERISTIC_PATH == << "service0021", "char002e" >>
CLOCK_CHARACTERISTIC_PATH == << "service0021", "char0022" >>
DevicePath == << "hci0", "dev_m1" >>

\* str::strip_suffix: Some(prefix) or None.
NoPath == << "None" >>
strip_suffix(path, suffix) ==
    IF /\ Len(path) >= Len(suffix)
       /\ SubSeq(path, Len(path) - Len(suffix) + 1, Len(path)) = suffix
    THEN SubSeq(path, 1, Len(path) - Len(suffix))
    ELSE NoPath

\* HistoryRecord::decode: the value has the fixed length of its layout, kept
\* here as an index byte and a data byte, or the decoding fails.
decode_history(value) ==
    IF Len(value) # 2 THEN NoRecord
    ELSE [index |-> value[1], data |-> IF value[2] = 0 THEN "a" ELSE "b"]

\* Option<BluetoothEvent>: Value { object_path, value },
\* Connected { object_path, connected }, or None for any other message.
BluetoothValue(object_path, value) ==
    [kind |-> "Value", object_path |-> object_path, value |-> value, connected |-> FALSE]
BluetoothConnected(object_path, connected) ==
    [kind |-> "Connected", object_path |-> object_path, value |-> << >>,
     connected |-> connected]
BluetoothOther ==
    [kind |-> "None", object_path |-> << >>, value |-> << >>, connected |-> FALSE]

\* Option<MijiaEvent>
NoMijiaEvent == [kind |-> "None", id |-> << >>, readings |-> NoReadings, record |-> NoRecord]
ReadingsEvent(id, readings) ==
    [kind |-> "Readings", id |-> id, readings |-> readings, record |-> NoRecord]
HistoryRecordEvent(id, record) ==
    [kind |-> "HistoryRecord", id |-> id, readings |-> NoReadings, record |-> record]
DisconnectedEvent(id) ==
    [kind |-> "Disconnected", id |-> id, readings |-> NoReadings, record |-> NoRecord]

\* Faulty variant: the result of Readings::decode is not looked at.
from_undecoded(event) ==
    IF event.kind = "Value"
    THEN IF strip_suffix(event.object_path, SENSOR_READING_CHARACTERISTIC_PATH) # NoPath
         THEN ReadingsEvent(strip_suffix(event.object_path,
                                         SENSOR_READING_CHARACTERISTIC_PATH),
                            decode(event.value))
         ELSE IF strip_suffix(event.object_path, HISTORY_RECORDS_CHARACTERISTIC_PATH) # NoPath
         THEN IF decode_history(event.value) # NoRecord
              THEN HistoryRecordEvent(strip_suffix(event.object_path,
                                                   HISTORY_RECORDS_CHARACTERISTIC_PATH),
                                      decode_history(event.value))
              ELSE NoMijiaEvent
         ELSE NoMijiaEvent
    ELSE IF event.kind = "Connected" /\ ~event.connected
    THEN DisconnectedEvent(event.object_path)
    ELSE NoMijiaEvent

\* MijiaEvent::from, on the result of BluetoothEvent::from.
from(event) ==
    IF event.kind = "Value"
    THEN IF strip_suffix(event.object_path, SENSOR_READING_CHARACTERISTIC_PATH) # NoPath
         THEN IF decode(event.value).some
              THEN ReadingsEvent(strip_suffix(event.object_path,
                                              SENSOR_READING_CHARACTERISTIC_PATH),
                                 decode(event.value))
              ELSE NoMijiaEvent
         ELSE IF strip_suffix(event.object_path, HISTORY_RECORDS_CHARACTERISTIC_PATH) # NoPath
         THEN IF decode_history(event.value) # NoRecord
              THEN HistoryRecordEvent(strip_suffix(event.object_path,
                                                   HISTORY_RECORDS_CHARACTERISTIC_PATH),
                                      decode_history(event.value))
              ELSE NoMijiaEvent
         ELSE NoMijiaEvent
    ELSE IF event.kind = "Connected" /\ ~event.connected
    THEN DisconnectedEvent(event.object_path)
    ELSE NoMijiaEvent

\* The messages of the transport: readings and history records with values
\* that decode and values that do not, a value of another characteristic, a
\* value of the device itself, both connection changes and another signal.
BluetoothEvents ==
    { BluetoothValue(DevicePath \o SENSOR_READING_CHARACTERISTIC_PATH, v) :
          v \in { << 1, 2, 3, 4, 10 >>, << 1, 2, 3, 4 >>, << >> } }
        \cup { BluetoothValue(DevicePath \o HISTORY_RECORDS_CHARACTERISTIC_PATH, v) :
                  v \in { << 1, 0 >>, << 1 >> } }
        \cup { BluetoothValue(DevicePath \o CLOCK_CHARACTERISTIC_PATH, << 1, 2, 3, 4, 10 >>),
               BluetoothValue(DevicePath, << 1, 2, 3, 4, 10 >>),
               BluetoothConnected(DevicePath, FALSE),
               BluetoothConnected(DevicePath, TRUE),
               BluetoothOther }

\* events.filter_map(MijiaEvent::from) and the loop of
\* service_bluetooth_event_queue: the next message of the stream is
\* translated, and an event is passed on to handle_bluetooth_event, whose
\* error ends the loop.
EventPump ==
    /\ call.fn = "event_stream"
    /\ ~done
    /\ call.pos < Len(call.arg)
    /\ call' = [call EXCEPT !.pos = call.pos + 1]
    /\ LET event == from(call.arg[call.pos + 1])
       IN  IF event = NoMijiaEvent
           THEN UNCHANGED << ret, done >>
           ELSE \E ok \in BOOLEAN :
                    /\ ret' = Append(ret, event)
                    /\ done' = ~ok
    /\ UNCHANGED << svars, hvars >>

----------------------------------------------------------------------------
\* The name-mapping file: hashmap_from_file

\* A line is the sequence of its tokens: the text of a MAC address ("A",
\* "B"), other text ("n") and the character '='.
MaxLineLen == 3
MacTexts == { "A", "B" }
Tokens == MacTexts \cup { "n", "=" }
Lines == UNION { [1..n -> Tokens] : n \in 0..MaxLineLen }

\* File::open fails (the file is absent), or the file has up to two lines.
NoFile == [exists |-> FALSE, lines |-> << >>]
Files ==
    { NoFile }
        \cup { [exists |-> TRUE, lines |-> ls] :
                  ls \in { << >> } \cup { << l >> : l \in Lines }
                             \cup { << l, m >> : l, m \in Lines } }

\* The position of the first '=' of the line, 0 if it has none.
FirstEq(line) ==
    IF \E i \in 1..Len(line) : line[i] = "="
    THEN CHOOSE i \in 1..Len(line) :
             line[i] = "=" /\ \A j \in 1..(i - 1) : line[j] # "="
    ELSE 0

\* Faulty variant: line.split('='), which splits at every '='.
RECURSIVE split(_)
split(line) ==
    IF FirstEq(line) = 0 THEN << line >>
    ELSE << SubSeq(line, 1, FirstEq(line) - 1) >>
             \o split(SubSeq(line, FirstEq(line) + 1, Len(line)))

\* line.splitn(2, '='): at most two parts, split at the first '='.
splitn(line) ==
    IF FirstEq(line) = 0 THEN << line >>
    ELSE << SubSeq(line, 1, FirstEq(line) - 1),
            SubSeq(line, FirstEq(line) + 1, Len(line)) >>

\* parts[0].parse::<MacAddress>(): the text of one MAC address, or an error.
NoMac == ""
parse_mac(text) == IF Len(text) = 1 /\ text[1] \in MacTexts THEN text[1] ELSE NoMac

\* HashMap::insert
insert(map, key, value) ==
    [k \in DOMAIN map \cup { key } |-> IF k = key THEN value ELSE map[k]]

\* Result<HashMap<MacAddress, String>, anyhow::Error>
EmptyMap == [k \in {} |-> << >>]
MapErr == [ok |-> FALSE, map |-> EmptyMap]
MapOk(map) == [ok |-> TRUE, map |-> map]

\* The loop over the lines of the file, from line i on.
RECURSIVE load_lines(_, _, _)
load_lines(lines, i, map) ==
    IF i > Len(lines) THEN MapOk(map)
    ELSE LET parts == splitn(lines[i])
         IN  IF Len(parts) # 2 THEN MapErr
             ELSE IF parse_mac(parts[1]) = NoMac THEN MapErr
             ELSE load_lines(lines, i + 1, insert(map, parse_mac(parts[1]), parts[2]))

hashmap_from_file(file) ==
    IF file.exists THEN load_lines(file.lines, 1, EmptyMap) ELSE MapOk(EmptyMap)

HashmapFromFile ==
    /\ call.fn = "hashmap_from_file"
    /\ ~done
    /\ ret' = hashmap_from_file(call.arg)
    /\ done' = TRUE
    /\ UNCHANGED << svars, hvars, call >>

----------------------------------------------------------------------------
\* The pure functions, each called on one of its inputs

MaxStream == 3
Streams == UNION { [1..n -> BluetoothEvents] : n \in 0..MaxStream }

Calls ==
    [fn : { "Readings::decode" }, arg : ReadingValues, pos : { 0 }]
        \cup [fn : { "event_stream" }, arg : Streams, pos : { 0 }]
        \cup [fn : { "hashmap_from_file" }, arg : Files, pos : { 0 }]

InitCodec ==
    /\ sensor_names = OneName
    /\ horizon = MaxTime
    /\ RegistryInit
    /\ HistoryIdle
    /\ call \in Calls
    /\ ret = << >>
    /\ done = FALSE

NextCodec ==
    \/ ReadingsDecode
    \/ EventPump
    \/ HashmapFromFile

SpecCodec == InitCodec /\ [][NextCodec]_vars

----------------------------------------------------------------------------
\* Claims

\* The index of the sensor with the given id, for the step recorded in last.
LastIdx == FindById(sensors, last.who)

\* The registry status tag of the sensor the last step was about.
LastTag == At(sensors, LastIdx).connection_status.tag

\* The last step issued the call op; it issued it and the call failed.
Issued(op) == \E k \in 1..Len(last.calls) : last.calls[k].op = op
Failed(op) == \E k \in 1..Len(last.calls) : last.calls[k].op = op /\ ~last.calls[k].ok

\* The connect attempt for sensors[i] is between its reservation and its
\* write-back.
InFlight(i) == pc \in { "connect", "write_back" } /\ idx = i

\* C1: a sensor whose registry status is Connected is never changed to
\* Connecting: the reservation of connect_sensor_at_idx is never written over
\* the status Connected.
C1_NeverConnectedToConnecting ==
    ~ (last.act = "reserve" /\ last.pre = "Connected")

\* C2: the registry holds at most one entry per MAC address, whatever the
\* discovery runs report and however often they run.
C2_OneEntryPerMac ==
    \A i, j \in 1..Len(sensors) :
        sensors[i].mac_address = sensors[j].mac_address => i = j

\* C2 witness: a discovery run that reported an already registered MAC
\* address, and one MAC address twice, has pushed its sensors.
C2_Witness ==
    /\ last.act = "push_sensors"
    /\ last.pre = "registered"
    /\ \E k, l \in 1..Len(last.calls) :
          k # l /\ last.calls[k].arg = last.calls[l].arg
                /\ last.calls[k].arg \in DOMAIN sensor_names

C5_EveryTickPicks ==
    (last.act = "next" /\ Len(sensors) > 0) => last.who # ""

\* The step of next_actionable_sensor and the step of the match.
C5_PickStep ==
    (pc = "next" /\ pc' \in { "match", "sleep" }) =>
        IF next_idx < Len(sensors)
        THEN /\ pc' = "match"
             /\ idx' = next_idx
             /\ status' = sensors[next_idx + 1].connection_status
             /\ next_idx' = next_idx + 1
        ELSE /\ pc' = "sleep"
             /\ next_idx = Len(sensors)
             /\ next_idx' = 0

C5_MatchStep ==
    (pc = "match" /\ pc' # "match" /\ run' = "running") =>
        pc' = IF status.tag = "Connected" THEN "check_stale" ELSE "clone"

\* C5 as amended: every tick picks at most one sensor: the sensor at the
\* cursor, which then moves on by one, when the cursor is below the length of
\* the registry, and no sensor when the cursor equals the length, which
\* resets the cursor to 0.  For the sensor it picked the tick runs the stale
\* check when the status read at the pick is Connected and the connect
\* attempt otherwise.
C5_AtMostOnePerTick == [][C5_PickStep /\ C5_MatchStep]_vars

\* C5 witness: with two sensors registered, the tick after the pick of the
\* last one has picked none and reset the cursor.
C5_Witness ==
    /\ last.act = "next"
    /\ last.who = ""
    /\ Len(sensors) = 2
    /\ next_idx = 0

C7_DisconnectedStep ==
    last'.act = "disconnected" =>
        LET i == FindById(sensors, last'.who)
        IN  IF i # -1 /\ At(sensors, i).connection_status.tag = "Connected"
            THEN /\ sensors' = SetAt(sensors, i,
                        [At(sensors, i) EXCEPT
                            !.connection_status = Status("MarkedDisconnected")])
                 /\ last'.calls = << Call("remove_node", node_id(At(sensors, i)),
                                         run' = "running") >>
                 /\ run' = "running" => nodes' = nodes \ { node_id(At(sensors, i)) }
            ELSE /\ sensors' = sensors
                 /\ nodes' = nodes
                 /\ last'.calls = << >>

\* C7: the Disconnected event for a sensor that is Connected makes it
\* MarkedDisconnected, leaves every other field and sensor alone and removes
\* its node (remove_node is called, and the node is gone when the call
\* succeeds); for any other sensor or an unknown id the sensors and the
\* nodes are unchanged and no call is issued.
C7_OnlyConnectedIsMarked == [][C7_DisconnectedStep]_vars

\* C7 witness: a Connected sensor with a registered node has been marked
\* disconnected and its node removed.
C7_Witness ==
    /\ last.act = "disconnected"
    /\ last.pre = "Connected"
    /\ LastTag = "MarkedDisconnected"
    /\ Failed("remove_node") = FALSE
    /\ node_id(At(sensors, LastIdx)) \notin nodes
    /\ run = "running"

\* The step of handle_bluetooth_event for a Readings event of a registered
\* sensor, when publish_value and add_node return no error.
C8_ReadingsStep ==
    (last'.act = "readings" /\ run' = "running" /\ FindById(sensors, last'.who) # -1) =>
        LET i == FindById(sensors, last'.who)
            adds == { k \in 1..Len(last'.calls) : last'.calls[k].op = "add_node" }
        IN  IF At(sensors, i).connection_status.tag \notin { "Connected", "Connecting" }
            THEN /\ At(sensors', i).connection_status = Status("Connected")
                 /\ Cardinality(adds) = 1
                 /\ nodes' = nodes \cup { node_id(At(sensors, i)) }
            ELSE /\ At(sensors', i).connection_status = At(sensors, i).connection_status
                 /\ adds = {}
                 /\ nodes' = nodes

\* C8: a Readings event that is handled without error for a registered
\* sensor makes it Connected and calls add_node once when its status was
\* neither Connected nor Connecting, and otherwise leaves its status and the
\* nodes unchanged and does not call add_node.
C8_SelfHealing == [][C8_ReadingsStep]_vars

\* C8 witness: a sensor in WatchdogTimeOut has received readings and is
\* Connected with its node registered.
C8_Witness ==
    /\ last.act = "readings"
    /\ last.pre = "WatchdogTimeOut"
    /\ LastTag = "Connected"
    /\ node_id(At(sensors, LastIdx)) \in nodes
    /\ run = "running"

\* The step of check_for_stale_sensor.
C9_StaleStep ==
    last'.act = "check_stale" =>
        LET s == At(sensors, idx)
        IN  IF now - s.last_update_timestamp > UPDATE_TIMEOUT
            THEN /\ sensors' = SetAt(sensors, idx,
                        [s EXCEPT !.connection_status = Status("WatchdogTimeOut")])
                 /\ last'.calls = << Call("remove_node", node_id(s), run' = "running") >>
                 /\ run' = "running" => nodes' = nodes \ { node_id(s) }
            ELSE /\ sensors' = sensors
                 /\ nodes' = nodes
                 /\ last'.calls = << >>

\* C9: the stale check of a tick that picked a Connected sensor makes the
\* sensor WatchdogTimeOut and removes its node (remove_node is called, and
\* the node is gone when the call succeeds) when the last update is more
\* than UPDATE_TIMEOUT ago, and leaves sensors and nodes unchanged otherwise.
C9_Watchdog == [][C9_StaleStep]_vars

\* C9 witness: a Connected sensor was found stale; it is WatchdogTimeOut and
\* its node is removed.
C9_Witness ==
    /\ last.act = "check_stale"
    /\ last.pre = "Connected"
    /\ LastTag = "WatchdogTimeOut"
    /\ node_id(At(sensors, LastIdx)) \notin nodes
    /\ run = "running"

\* C9 witness of the other case: a Connected sensor was checked within the
\* timeout and is still Connected with its node registered.
C9_WitnessFresh ==
    /\ last.act = "check_stale"
    /\ last.pre = "Connected"
    /\ last.calls = << >>
    /\ LastTag = "Connected"
    /\ node_id(At(sensors, LastIdx)) \in nodes

\* C10 as stated: after a failed subscribe the snapshot is
\* SubscribingFailedOnce with no disconnect issued when it was not
\* SubscribingFailedOnce before, and Disconnected with a disconnect issued
\* when it was.
C10_FailsOnceThenDisconnects ==
    (last.act = "connect" /\ Failed("start_notify") /\ run = "running") =>
        IF last.pre # "SubscribingFailedOnce"
        THEN sensor.connection_status.tag = "SubscribingFailedOnce" /\ ~Issued("disconnect")
        ELSE sensor.connection_status.tag = "Disconnected" /\ Issued("disconnect")

\* The state after connect_start_sensor with a failed subscribe.
C10_AfterConnect ==
    (last.act = "connect" /\ Failed("start_notify")) =>
        CASE last.pre = "Connected" ->
                 run = "panicked" /\ ~Issued("disconnect")
          [] last.pre = "SubscribingFailedOnce" ->
                 /\ run = "running"
                 /\ Issued("disconnect")
                 /\ sensor.connection_status.tag =
                        IF Failed("disconnect") THEN "SubscribingFailedOnce"
                        ELSE "Disconnected"
          [] OTHER ->
                 /\ run = "running"
                 /\ ~Issued("disconnect")
                 /\ sensor.connection_status.tag = "SubscribingFailedOnce"

\* The write-back of a failed attempt.
C10_WriteBackStep ==
    (pc = "write_back" /\ pc' = "sleep" /\ result = "err") =>
        At(sensors', idx).connection_status = sensor.connection_status

\* C10 as amended: after a failed subscribe the status written back to the
\* registry is SubscribingFailedOnce, with no disconnect issued, when the
\* snapshot was neither SubscribingFailedOnce nor Connected; when it was
\* SubscribingFailedOnce a disconnect is issued and the status is
\* Disconnected if the disconnect succeeds and SubscribingFailedOnce if it
\* fails; when it was Connected the task panics.
C10_SubscribeFailure == [][C10_AfterConnect' /\ C10_WriteBackStep]_vars

\* C10 witness: the subscribe failed for the second time and the disconnect
\* failed too; the snapshot is still SubscribingFailedOnce.
C10_Witness ==
    /\ last.act = "connect"
    /\ last.pre = "SubscribingFailedOnce"
    /\ Failed("start_notify")
    /\ Failed("disconnect")
    /\ pc = "write_back"
    /\ sensor.connection_status.tag = "SubscribingFailedOnce"

\* C11: a connect attempt in which the connect, the subscribe or the
\* follow-up disconnect failed is caught inside the tick: connect_start_sensor
\* returns, the loop is still running and the tick goes on to the write-back.
C11_TransportFailureIsCaught ==
    (last.act = "connect"
        /\ (Failed("connect") \/ Failed("start_notify") \/ Failed("disconnect")))
    => (run = "running" /\ pc = "write_back" /\ result = "err")

\* C12: while a transport call of the orchestrator is outstanding (the
\* discovery calls, or connect, start_notify and disconnect of an attempt)
\* the orchestrator does not hold the lock of the registry, and the step
\* that issued transport calls held no lock.
C12_NoLockAcrossTransport ==
    /\ (run = "running" /\ pc \in { "discover", "connect" }) => lock # "loop"
    /\ (Issued("start_discovery") \/ Issued("get_devices") \/ Issued("connect")
           \/ Issued("start_notify") \/ Issued("disconnect")) => last.held = "none"

\* C12 witness: while the connect attempt for a sensor is in flight the
\* dispatcher has taken the lock and applied a Readings event to that sensor.
C12_Witness ==
    /\ pc = "connect"
    /\ last.act = "readings"
    /\ last.held = "events"
    /\ last.pre = "Connecting"
    /\ InFlight(LastIdx)
    /\ At(sensors, LastIdx).last_update_timestamp = now

\* The step that writes a connection_status, of a registered or a new sensor.
C13_StatusWriteStep ==
    (\E i \in 1..Len(sensors') :
        i > Len(sensors) \/ sensors'[i].connection_status # sensors[i].connection_status)
    => /\ lock = "none"
       /\ last'.held \in { "loop", "events" }
       /\ lock' = "none"

C14_KeepsSensors ==
    /\ Len(sensors') >= Len(sensors)
    /\ \A i \in 1..Len(sensors) :
          /\ sensors'[i].id = sensors[i].id
          /\ sensors'[i].mac_address = sensors[i].mac_address
          /\ sensors'[i].name = sensors[i].name

\* C14: a sensor is never removed from the registry: with every step of the
\* orchestrator and of the dispatcher the length of the registry does not
\* decrease and each sensor keeps its index, id, MAC address and name.
C14_NeverRemoved == [][C14_KeepsSensors]_vars

\* C14 witness: with two sensors registered, a failed connect attempt for
\* the second one has been written back.
C14_Witness ==
    /\ Len(sensors) = 2
    /\ last.act = "write_back"
    /\ ~Issued("add_node")
    /\ LastIdx = 1
    /\ sensors[1].mac_address # sensors[2].mac_address

\* The last step had a call of discovery or of the telemetry client fail.
C15_Unrecoverable ==
    \/ Failed("start_discovery")
    \/ Failed("get_devices")
    \/ Failed("add_node")
    \/ Failed("remove_node")
    \/ Failed("publish_value")

\* C15: a failed discovery call or telemetry call ends its loop with an
\* error, and once a loop has ended neither loop takes another step: no
\* tick, no event handling, no change of the registry.
C15_FailureStopsSystem ==
    [][ /\ C15_Unrecoverable' => run' = "failed"
        /\ run # "running" => UNCHANGED vars ]_vars

\* C15 witness: remove_node failed in the dispatcher after the sensor was
\* marked disconnected; the system is stopped.
C15_Witness ==
    /\ run = "failed"
    /\ last.act = "disconnected"
    /\ Failed("remove_node")
    /\ LastTag = "MarkedDisconnected"

\* The step of get_all_history that handles one event.
C16_EventStep ==
    h_count' = h_count + 1 =>
        LET e == h_event'
            r == history_range
            wanted == /\ e.kind = "HistoryRecord"
                      /\ e.id = h_id
                      /\ r.start <= e.record.index
                      /\ e.record.index < r.end
        IN  /\ Len(history') = r.end - r.start
            /\ \A k \in 1..Len(history') :
                  history'[k] = IF wanted /\ k - 1 = e.record.index - r.start
                                THEN e.record
                                ELSE history[k]

\* C16: a history record for the sensor asked for with an index inside
\* [range.start, range.end) is stored at slot index - range.start and
\* changes no other slot; a record with an index outside the range or for
\* another sensor, and any other event, changes no slot; the slots are
\* always range.end - range.start many, also in the result.
C16_HistoryOffsetMapping ==
    [][ /\ C16_EventStep
        /\ h_result' = "ok" => Len(history') = history_range'.end - history_range'.start
      ]_vars

\* C16 witness: with a range that starts at 1, the record with index 2 has
\* been stored at slot 1 while slot 0 is still None.
C16_Witness ==
    /\ h_pc = "loop"
    /\ history_range = [start |-> 1, end |-> 3]
    /\ h_event.kind = "HistoryRecord"
    /\ h_event.id = h_id
    /\ h_event.record.index = 2
    /\ history = << NoRecord, h_event.record >>

\* C16 witness of the other case: a record with the index range.end was
\* dropped after a record had been stored.
C16_WitnessDropped ==
    /\ h_pc = "loop"
    /\ history_range = [start |-> 1, end |-> 3]
    /\ h_event.kind = "HistoryRecord"
    /\ h_event.id = h_id
    /\ h_event.record.index = 3
    /\ history[1] # NoRecord

\* The loop of get_all_history is left only when the timeout has elapsed.
C17_LoopExit ==
    (h_pc = "loop" /\ h_pc' # "loop") => (h_pc' = "stop" /\ h_event'.kind = "Elapsed")

\* get_all_history has returned: the MsgMatch is no longer held, and with the
\* result Ok the notifications are stopped, the match is removed and every
\* slot is None or holds a record with the index of the slot.
C17_Returned ==
    h_pc = "done" =>
        /\ h_match # "held"
        /\ h_result = "ok" =>
              /\ ~h_notify
              /\ h_match = "removed"
              /\ \A k \in 1..Len(history) :
                    \/ history[k] = NoRecord
                    \/ history[k].index = history_range.start + k - 1

C17_WitnessFilled ==
    /\ h_pc = "loop"
    /\ Len(history) = 2
    /\ \A k \in 1..2 : history[k] # NoRecord
    /\ h_count = 2

\* C18: Readings::decode fails for every value whose length is not 5; for a
\* value b of 5 bytes it returns the humidity b[2], the voltage
\* b[3] + 256 * b[4], the percentage (voltage - 2100) / 10 rounded down, 0
\* for a voltage below 2100, and the temperature as the signed 16-bit
\* little-endian number of b[0] and b[1], in hundredths of a degree.
C18_DecodeReadings ==
    (call.fn = "Readings::decode" /\ done) =>
        LET b == call.arg
        IN  IF Len(b) # 5 THEN ~ret.some
            ELSE LET voltage == b[4] + 256 * b[5]
                     raw == b[1] + 256 * b[2]
                 IN  /\ ret.some
                     /\ ret.humidity = b[3]
                     /\ ret.battery_voltage = voltage
                     /\ ret.battery_percent =
                            IF voltage < 2100 THEN 0 ELSE (voltage - 2100) \div 10
                     /\ ret.battery_percent >= 0
                     /\ ret.battery_percent <= 6343
                     /\ ret.temperature = IF raw < 32768 THEN raw ELSE raw - 65536

\* C18 witness: the value [1, 2, 3, 4, 10] has been decoded to 5.13 degrees,
\* 3 percent humidity, 2564 mV and 46 percent.
C18_Witness ==
    /\ call.fn = "Readings::decode"
    /\ done
    /\ call.arg = << 1, 2, 3, 4, 10 >>
    /\ ret = SomeReadings(513, 3, 2564, 46)

\* C18 witness of the clamp: a voltage below 2100 has been decoded to 0
\* percent, with a negative temperature.
C18_WitnessClamp ==
    /\ call.fn = "Readings::decode"
    /\ done
    /\ ret.some
    /\ ret.battery_voltage = 2099
    /\ ret.battery_percent = 0
    /\ ret.temperature < 0

\* The payload of a notification decodes: five bytes of readings, or the two
\* bytes of a history record.
C19_OnReadings(m) ==
    /\ m.kind = "Value"
    /\ Len(m.object_path) >= 2
    /\ SubSeq(m.object_path, Len(m.object_path) - 1, Len(m.object_path))
           = << "service0021", "char0035" >>
C19_OnHistory(m) ==
    /\ m.kind = "Value"
    /\ Len(m.object_path) >= 2
    /\ SubSeq(m.object_path, Len(m.object_path) - 1, Len(m.object_path))
           = << "service0021", "char002e" >>
C19_WellFormed(m) ==
    \/ C19_OnReadings(m) /\ Len(m.value) = 5
    \/ C19_OnHistory(m) /\ Len(m.value) = 2
C19_Dropped(m) == m.kind = "Value" /\ ~C19_WellFormed(m)
C19_PumpStep == call.fn = "event_stream" /\ call'.pos = call.pos + 1
C19_Message == call.arg[call.pos + 1]

\* C19: a notification on the readings or the history characteristic whose
\* payload does not decode, and a notification on any other path, yields no
\* event and no error: nothing is dispatched and the loop goes on; a
\* well-formed notification, whatever was dropped before it, is translated and
\* dispatched with the id of its device; and the loop only ever ends on the
\* error of the handler of an event it dispatched, so that the next message of
\* the stream can always be taken while it has not.
C19_DecodeFailureIsDropped ==
    /\ [][C19_PumpStep =>
            /\ C19_Dropped(C19_Message) => (ret' = ret /\ ~done')
            /\ C19_WellFormed(C19_Message) =>
                   /\ Len(ret') = Len(ret) + 1
                   /\ SubSeq(ret', 1, Len(ret)) = ret
                   /\ ret'[Len(ret')].id = DevicePath
                   /\ ret'[Len(ret')].kind =
                          IF C19_OnReadings(C19_Message) THEN "Readings"
                          ELSE "HistoryRecord"
                   /\ C19_OnReadings(C19_Message) =>
                          ret'[Len(ret')].readings = decode(C19_Message.value)
            /\ done' => ret' # ret]_vars
    /\ []((call.fn = "event_stream" /\ ~done /\ call.pos < Len(call.arg))
             => ENABLED EventPump)

\* A payload that does not decode was dropped, and the readings sent after it
\* were translated and dispatched.
C19_Witness ==
    /\ call.fn = "event_stream"
    /\ ~done
    /\ call.pos = 2
    /\ C19_OnReadings(call.arg[1]) /\ Len(call.arg[1].value) = 4
    /\ C19_OnReadings(call.arg[2]) /\ Len(call.arg[2].value) = 5
    /\ ret = << ReadingsEvent(DevicePath, SomeReadings(513, 3, 2564, 46)) >>

\* A history record that does not decode and a value of another
\* characteristic were dropped before a history record was dispatched.
C19_WitnessHistory ==
    /\ call.fn = "event_stream"
    /\ ~done
    /\ call.pos = 3
    /\ C19_OnHistory(call.arg[1]) /\ Len(call.arg[1].value) = 1
    /\ call.arg[2].kind = "Value" /\ ~C19_OnReadings(call.arg[2])
    /\ ~C19_OnHistory(call.arg[2])
    /\ Len(ret) = 1 /\ ret[1].kind = "HistoryRecord"

C20_EqCount(line) == Cardinality({ i \in 1..Len(line) : line[i] = "=" })
C20_Loaded == call.fn = "hashmap_from_file" /\ done
\* The line is the text of a MAC address, an '=', and the name.
C20_Pair(line) == Len(line) >= 2 /\ line[1] \in MacTexts /\ line[2] = "="
C20_Name(line) == SubSeq(line, 3, Len(line))
\* The last line of the file for the MAC address.
C20_LastFor(lines, mac) ==
    CHOOSE i \in 1..Len(lines) :
        /\ lines[i][1] = mac
        /\ \A j \in (i + 1)..Len(lines) : lines[j][1] # mac

\* C20 as stated: loading fails for every line that does not contain exactly
\* one '=' (none, or more than one).
C20_FailsUnlessOneEq ==
    (C20_Loaded /\ \E i \in 1..Len(call.arg.lines) : C20_EqCount(call.arg.lines[i]) # 1)
        => ~ret.ok

\* C20: loading fails for every line that has no '=' and for every line whose
\* text before its first '=' is not a MAC address; it returns an empty mapping
\* without error when the file cannot be opened; otherwise it maps the MAC
\* address of each line to the whole text after the first '=' of the line,
\* further '=' included, the last line for a MAC address winning.
C20_FailsWithoutEq ==
    C20_Loaded =>
        LET lines == call.arg.lines
        IN  IF ~call.arg.exists THEN ret.ok /\ ret.map = EmptyMap
            ELSE IF \E i \in 1..Len(lines) : ~C20_Pair(lines[i]) THEN ~ret.ok
            ELSE /\ ret.ok
                 /\ DOMAIN ret.map = { lines[i][1] : i \in 1..Len(lines) }
                 /\ \A mac \in DOMAIN ret.map :
                        ret.map[mac] = C20_Name(lines[C20_LastFor(lines, mac)])

\* A line with two '=' was loaded, the second '=' in the name.
C20_Witness ==
    /\ C20_Loaded
    /\ ret.ok
    /\ \E i \in 1..Len(call.arg.lines) :
           /\ C20_EqCount(call.arg.lines[i]) = 2
           /\ ret.map[call.arg.lines[i][1]] = << "=" >>

\* A line without '=' made the loading fail.
C20_WitnessNoEq ==
    /\ C20_Loaded
    /\ ~ret.ok
    /\ \E i \in 1..Len(call.arg.lines) : C20_EqCount(call.arg.lines[i]) = 0

\* The file was absent and the mapping is empty.
C20_WitnessAbsent == C20_Loaded /\ ~call.arg.exists /\ ret = MapOk(EmptyMap)

\* The transitions of the state-machine table, between the status pre and the
\* status post of one sensor at the time t.
C21_InTable(pre, post, t) ==
    \/ /\ post.tag = "Connecting"
       /\ pre.tag # "Connected"
       /\ pre.tag = "Connecting" => pre.reserved_until <= t
    \/ /\ pre.tag = "Connecting"
       /\ post.tag \in { "Connected", "SubscribingFailedOnce", "Disconnected" }
    \/ /\ pre.tag = "Connected"
       /\ post.tag \in { "WatchdogTimeOut", "MarkedDisconnected" }
    \/ /\ pre.tag \notin { "Connected", "Connecting" }
       /\ post.tag = "Connected"

\* C21: every change of the status of a registered sensor is one of the
\* transitions of the state-machine table.
C21_OnlyTableTransitions ==
    [][\A i \in 1..Len(sensors) :
           sensors'[i].connection_status # sensors[i].connection_status =>
               C21_InTable(sensors[i].connection_status,
                           sensors'[i].connection_status, now)]_vars

\* C22: the snapshot of a sensor never has the status Connected when the
\* subscribe step of its connect attempt fails, so the panic branch of
\* connect_start_sensor is never taken.
C22_PanicUnreachable ==
    /\ result # "panic"
    /\ (last.act = "connect" /\ Failed("start_notify")) => last.pre # "Connected"

\* The write-back of an attempt whose connect and subscribe succeeded, the
\* node added.
C23_SuccessStep ==
    (pc = "write_back" /\ result = "ok" /\ pc' = "sleep") =>
        /\ sensors'[idx + 1].connection_status = Status("Connected")
        /\ sensors'[idx + 1].last_update_timestamp = now
        /\ node_id(sensors[idx + 1]) \in nodes'
        /\ last'.calls = << Call("add_node", node_id(sensors[idx + 1]), TRUE) >>

\* C23: when the connect and the subscribe of an attempt succeed the node of
\* the sensor is added, its status becomes Connected and its
\* last_update_timestamp the time of the write-back; the timestamp never
\* falls behind that time again, and the watchdog fires for the sensor only
\* when more than UPDATE_TIMEOUT has passed since the attempt completed.
C23_ConnectedIsFresh ==
    /\ [][C23_SuccessStep]_vars
    /\ [](\A i \in 1..Len(sensors) :
              connected_at[i] # -1 =>
                  /\ sensors[i].last_update_timestamp >= connected_at[i]
                  /\ ( /\ last.act = "check_stale"
                       /\ Issued("remove_node")
                       /\ LastIdx = i - 1 ) => now - connected_at[i] > UPDATE_TIMEOUT)

\* C23 witness: the watchdog has fired for a sensor whose connect attempt had
\* completed, with no readings since.
C23_Witness ==
    /\ last.act = "check_stale"
    /\ Issued("remove_node")
    /\ connected_at[LastIdx + 1] # -1
    /\ At(sensors, LastIdx).last_update_timestamp = connected_at[LastIdx + 1]
    /\ now = connected_at[LastIdx + 1] + UPDATE_TIMEOUT + 1

\* A connect attempt has just completed.
C23_WitnessCompleted ==
    /\ last.act = "write_back"
    /\ Issued("add_node")
    /\ run = "running"
    /\ connected_at[LastIdx + 1] = now
    /\ LastTag = "Connected"

\* An event for the first sensor has just been handled; the loop has ended.
C24_Event == last.act \in { "readings", "disconnected" } /\ last.who = "hci0/m1"
C24_Ended == run # "running"
C24_Has(tag) == Len(sensors) >= 1 /\ sensors[1].connection_status.tag = tag

C25_Configured == Cardinality(DOMAIN sensor_names)

\* The scan check of the tick.
C25_ScanStep ==
    (pc = "top" /\ last'.act = "top") =>
        IF now > next_scan_due /\ Len(sensors) < C25_Configured
        THEN pc' = "discover"
        ELSE pc' = "next" /\ sensors' = sensors

\* C25: the MAC address of every registry entry is in the name list and the
\* registry has at most as many entries as the name list; a tick runs
\* discovery only when the scan interval has elapsed and the registry has
\* fewer entries than the name list, so that no discovery runs, and no
\* sensor is pushed, once the registry has as many entries as the list.
C25_DiscoveryOnlyWhileMissing ==
    /\ [][C25_ScanStep]_vars
    /\ [](/\ \A i \in 1..Len(sensors) : sensors[i].mac_address \in DOMAIN sensor_names
          /\ Len(sensors) <= C25_Configured
          /\ pc \in { "discover", "push_sensors" } => Len(sensors) < C25_Configured)

\* C25 witness: with both configured sensors registered the scan interval has
\* elapsed, and the tick has gone on without a discovery.
C25_Witness ==
    /\ Len(sensors) = 2
    /\ C25_Configured = 2
    /\ last.act = "top"
    /\ now > next_scan_due
    /\ pc = "next"

\* The positions of the tick at which the index it picked is used, or is
\* still to be used, to index the registry.
C26_UsesIdx == pc \in { "match", "clone", "reserve", "connect", "write_back", "check_stale" }

\* C26: the cursor is between 0 and the number of registered sensors, and the
\* index a tick picked is a valid index of the registry at every later
\* position of the tick that indexes the registry with it: no sensors[idx]
\* is out of bounds (the only panic is the one of connect_start_sensor), and
\* the registry a step indexes is never shorter than the one the index was
\* picked from.
C26_IndexInBounds ==
    /\ [][Len(sensors') >= Len(sensors)]_vars
    /\ [](/\ next_idx >= 0
          /\ next_idx <= Len(sensors)
          /\ C26_UsesIdx => (idx >= 0 /\ idx < Len(sensors))
          /\ last.act \in { "match", "clone", "reserve", "write_back", "check_stale" }
                 => (last.who # "" /\ LastIdx >= 0 /\ LastIdx < Len(sensors))
          /\ run = "panicked" => last.act = "connect")

\* C26 witness: the cursor is at the end of a registry of two sensors, and the
\* tick that picked the last of them has written its snapshot back to it.
C26_Witness ==
    /\ Len(sensors) = 2
    /\ next_idx = 2
    /\ last.act = "write_back"
    /\ idx = 1
    /\ run = "running"

\* The positions of the loop outside a connect attempt, the start of the tick
\* among them.
C27_OutsideAttempt ==
    pc \in { "start", "top", "discover", "push_sensors", "next", "match", "clone",
             "reserve", "check_stale", "sleep" }

\* C27: while the loop is running, a sensor is Connecting only during the
\* connect attempt of the tick for that very sensor, the snapshot in hand; no
\* sensor is Connecting at the start of a tick or anywhere else outside an
\* attempt, and no tick ever reads the status Connecting at its pick.
C27_NoConnectingBetweenTicks ==
    run = "running" =>
        /\ \A i \in 1..Len(sensors) :
               sensors[i].connection_status.tag = "Connecting" =>
                   /\ ~C27_OutsideAttempt
                   /\ idx = i - 1
                   /\ sensor.id = sensors[i].id
        /\ last.act = "next" => last.pre # "Connecting"
        /\ status.tag # "Connecting"

\* C27 witness: a tick starts after the attempt of the tick before it has
\* failed and its write-back has replaced Connecting.
C27_Witness ==
    /\ run = "running"
    /\ pc = "top"
    /\ last.act = "sleep"
    /\ Len(sensors) = 1
    /\ sensors[1].connection_status.tag = "SubscribingFailedOnce"

\* C28: no write to the registry sets the last_update_timestamp of a sensor
\* to an earlier value than it has, the write-back of the snapshot at the end
\* of a connect attempt included.
C28_TimestampNeverDecreases ==
    [][\A i \in 1..Len(sensors) :
           sensors'[i].last_update_timestamp >= sensors[i].last_update_timestamp]_vars

\* The calls of the telemetry client that the step issues, against the nodes
\* registered before the step.
C29_NodeCalls ==
    \A k \in 1..Len(last'.calls) :
        /\ last'.calls[k].op = "add_node" => last'.calls[k].arg \notin nodes
        /\ last'.calls[k].op = "remove_node" => last'.calls[k].arg \in nodes

\* C29: add_node is never called for a sensor whose node is registered,
\* remove_node never for a sensor whose node is not, and the node of every
\* sensor whose registry status is Connected is registered.
C29_NodesFollowStatus ==
    /\ [][C29_NodeCalls]_vars
    /\ [](\A i \in 1..Len(sensors) :
              sensors[i].connection_status.tag = "Connected" =>
                  node_id(sensors[i]) \in nodes)

=============================================================================
